---- MODULE Spec2Model ----
(***************************************************************************)
(* Grid placement of imported tree assets (CE-Tree-Grid.py,                *)
(* Ce-Tree-Grid-with-Select-and-Zoom.py, CE-trees-to-grid.py).             *)
(*                                                                         *)
(* Numbers.  The scripts compute with floating point; the model computes   *)
(* exactly.  Every length is stored in quarter units (stored = 4 * value), *)
(* so that spacing / 2 and (min_corner + max_corner) / 2.0 are exact       *)
(* integer divisions: spacings are whole numbers and imported coordinates  *)
(* are multiples of 1/2, hence even when stored, and a translation keeps   *)
(* min + max even.                                                         *)
(*                                                                         *)
(* Host.  An object of the scene has a location relative to its parent, a  *)
(* parent, a parent-inverse translation, a bounding box in its own space   *)
(* and the collections it is linked to.  Transforms are translations.      *)
(* obj.matrix_world is read as the object's current world transform.       *)
(***************************************************************************)
EXTENDS Integers, Sequences, FiniteSets, TLC

VARIABLES
    variant,        \* which script is installed
    spacing,        \* props.spacing, as stored
    keep_world,     \* host policy: does assigning obj.parent keep the world transform
    objects,        \* bpy.data.objects, in creation order; an object's id is its index
    groups,         \* the groups the host has imported: imported_objs and their collection
    call,           \* the last call made to a routine of the script, with its result
    folders,        \* the style folders: files in each, or Missing
    fault,          \* the file that raises and where (importing or placing), if any
    reverse_rows,   \* props.reverse_rows
    label_mode,     \* props.label_mode
    pc,             \* where the import operator's execute is
    outer,          \* index of the outer loop of execute (tree or style), from 0
    inner,          \* index of the inner loop of execute (style row or file), from 0
    collections,    \* bpy.data.collections created by execute, in creation order
    checkerboard,   \* the arguments make_checkerboard was called with
    reports,        \* what self.report was given, in order
    total,          \* CE-trees-to-grid.py: the count of imported models
    status,         \* the value execute returned
    script,         \* which LOD editing script is installed
    registered,     \* are the script's operators registered with the host
    scene,          \* the LOD scene: bpy.data.objects, by name
    original_positions_store,   \* global: list of (name, location)
    original_geometry_store,    \* global: dict name -> copy of the mesh
    selected_reference_name,    \* global: name of the reference, or NoName
    scene_offset_vector,        \* global: the offset the last Move applied
    invoked,        \* the last operator of the LOD script invoked, with its outcome
    since_move,     \* the session before the last successful Move, and the user's edits since
    moves,          \* the number of successful Moves so far
    edits           \* the number of edits the user has made by hand so far

placement == <<variant, spacing, keep_world, objects, groups, call>>

operator == <<folders, fault, reverse_rows, label_mode, pc, outer, inner, collections,
              checkerboard, reports, total, status>>

session == <<script, registered, scene, original_positions_store, original_geometry_store,
             selected_reference_name, scene_offset_vector, invoked, since_move, moves, edits>>

vars == <<placement, operator, session>>

-----------------------------------------------------------------------------
(* Bounds of the model *)

MaxFrags == 2       \* fragments in one imported group
MaxCalls == 2       \* calls made to the placement routines in one behaviour
MaxCell == 1        \* the farthest column and row a group is sent to
MaxFiles == 1       \* asset files in one style folder
MaxMoves == 2       \* successful Moves in one LOD editing session
MaxEdits == 1       \* edits the user makes by hand in one LOD editing session

(* Program constants *)

MinSpacing == 10        \* FloatProperty spacing, min=10.0
DefaultSpacing == 50    \* FloatProperty spacing, default=50.0
None == 0               \* Python None where an object is expected

\* a whole number of units, as stored
U(v) == 4 * v

\* half a unit, as stored
HalfUnit == U(1) \div 2

NoneVec == <<>>         \* Python None where a Vector is expected

CETreeGrid == "CE-Tree-Grid"
CETreeGridSelectZoom == "Ce-Tree-Grid-with-Select-and-Zoom"
CETreesToGrid == "CE-trees-to-grid"

Variants == {CETreeGrid, CETreeGridSelectZoom, CETreesToGrid}

Spacings == {U(MinSpacing + 1), U(DefaultSpacing)}

DefaultTextOffset == 1  \* FloatProperty text_offset, default=1.0

TextOffsets == {U(DefaultTextOffset), U(DefaultTextOffset + 2)}

-----------------------------------------------------------------------------
(* mathutils.Vector *)

Vector(x, y, z) == <<x, y, z>>

ZeroVector == Vector(0, 0, 0)

VecAdd(a, b) == Vector(a[1] + b[1], a[2] + b[2], a[3] + b[3])

VecSub(a, b) == Vector(a[1] - b[1], a[2] - b[2], a[3] - b[3])

VecHalf(a) == Vector(a[1] \div 2, a[2] \div 2, a[3] \div 2)

SetMin(S) == CHOOSE m \in S : \A n \in S : m <= n

SetMax(S) == CHOOSE m \in S : \A n \in S : m >= n

-----------------------------------------------------------------------------
(* The host's objects *)

\* the eight corners of an axis-aligned box, as obj.bound_box lists them
Corners(lo, hi) ==
    {Vector(x, y, z) : x \in {lo[1], hi[1]}, y \in {lo[2], hi[2]}, z \in {lo[3], hi[3]}}

NoCorners == {}

\* a cube of side 1 about the object's origin
UnitCube ==
    Corners(Vector(-HalfUnit, -HalfUnit, -HalfUnit), Vector(HalfUnit, HalfUnit, HalfUnit))

\* bpy.data.objects.new(name, None): an Empty at the origin, linked nowhere
NewEmpty(name) ==
    [type |-> "EMPTY", name |-> name, location |-> ZeroVector, parent |-> None,
     parent_inverse |-> ZeroVector, bound_box |-> NoCorners, users_collection |-> {}]

\* a mesh object as the glTF importer leaves it: unparented, in collection coll
NewMesh(name, loc, bb, coll) ==
    [type |-> "MESH", name |-> name, location |-> loc, parent |-> None,
     parent_inverse |-> ZeroVector, bound_box |-> bb, users_collection |-> {coll}]

\* bpy.ops.mesh.primitive_plane_add(size=s, location=loc): the plane Cell_x_y
NewPlane(name, loc, s, coll) ==
    [type |-> "MESH", name |-> name, location |-> loc, parent |-> None,
     parent_inverse |-> ZeroVector,
     bound_box |-> Corners(Vector(-(s \div 2), -(s \div 2), 0), Vector(s \div 2, s \div 2, 0)),
     users_collection |-> {coll}]

\* bpy.ops.object.text_add(location=loc): a text object at loc
NewText(name, loc, coll) ==
    [type |-> "FONT", name |-> name, location |-> loc, parent |-> None,
     parent_inverse |-> ZeroVector, bound_box |-> NoCorners, users_collection |-> {coll}]

RECURSIVE matrix_world(_, _)
\* obj.matrix_world: the translation that takes the object's space to world space
matrix_world(objs, i) ==
    IF objs[i].parent = None
    THEN objs[i].location
    ELSE VecAdd(matrix_world(objs, objs[i].parent),
                VecAdd(objs[i].parent_inverse, objs[i].location))

\* the parent is assigned and the location relative to it is reset
SetParent_ClearLocation(objs, i, p, keep) ==
    [objs EXCEPT ![i].parent = p, ![i].location = ZeroVector]

\* the parent is assigned and the world transform is not kept, whatever the host
SetParent_KeepLocal(objs, i, p, keep) ==
    [objs EXCEPT ![i].parent = p]

\* obj.parent = p, as the host carries it out
SetParent(objs, i, p, keep) ==
    [objs EXCEPT ![i].parent = p,
                 ![i].parent_inverse =
                     IF keep
                     THEN VecSub(VecSub(matrix_world(objs, i), matrix_world(objs, p)),
                                 objs[i].location)
                     ELSE @]

\* only the first fragment is parented
SetParentAll_FirstOnly(objs, list, p, keep) ==
    IF list = <<>> THEN objs ELSE [objs EXCEPT ![Head(list)].parent = p]

RECURSIVE SetParentAll(_, _, _, _)
\* for obj in imported_objs: obj.parent = p
SetParentAll(objs, ids, p, keep) ==
    IF ids = <<>>
    THEN objs
    ELSE SetParentAll(SetParent(objs, Head(ids), p, keep), Tail(ids), p, keep)

\* the object is not linked
Link_Omitted(objs, i, coll) == objs

\* collection.objects.link(obj)
Link(objs, i, coll) ==
    [objs EXCEPT ![i].users_collection = @ \cup {coll}]

-----------------------------------------------------------------------------
(* The routines of the scripts *)

\* rows laid out towards positive Y
grid_cell_center_PositiveY(cell_x, cell_y, s) ==
    Vector(cell_x * s + s \div 2, cell_y * s + s \div 2, 0)

grid_cell_center(cell_x, cell_y, s) ==
    Vector(cell_x * s + s \div 2, (-cell_y) * s - s \div 2, 0)

\* all_coords / coords: every bounding-box corner of every object, in world space
WorldCoords(objs, ids) ==
    UNION {{VecAdd(matrix_world(objs, ids[k]), v) : v \in objs[ids[k]].bound_box} :
              k \in DOMAIN ids}

MinCorner(coords) ==
    Vector(SetMin({c[1] : c \in coords}), SetMin({c[2] : c \in coords}),
           SetMin({c[3] : c \in coords}))

MaxCorner(coords) ==
    Vector(SetMax({c[1] : c \in coords}), SetMax({c[2] : c \in coords}),
           SetMax({c[3] : c \in coords}))

NoBBox == [min_corner |-> NoneVec, max_corner |-> NoneVec, center |-> NoneVec]

compute_world_bbox(objs, ids) ==
    LET coords == WorldCoords(objs, ids)
    IN  IF coords = {}
        THEN NoBBox
        ELSE [min_corner |-> MinCorner(coords),
              max_corner |-> MaxCorner(coords),
              center |-> VecHalf(VecAdd(MinCorner(coords), MaxCorner(coords)))]

\* the centre of the box, not its lowest point, is put on the ground
PlacementOffset_CenterZ(min_corner, center, target) ==
    Vector(target[1] - center[1], target[2] - center[2], -center[3])

\* offset = Vector((target.x - center.x, target.y - center.y, -min_corner.z))
PlacementOffset(min_corner, center, target) ==
    Vector(target[1] - center[1], target[2] - center[2], -min_corner[3])

\* style_empty.location -= offset
MoveBy_Subtract(objs, i, offset) ==
    [objs EXCEPT ![i].location = VecSub(@, offset)]

\* style_empty.location += offset
MoveBy(objs, i, offset) ==
    [objs EXCEPT ![i].location = VecAdd(@, offset)]

\* what a call of align_group_with_empty leaves: the scene, the value returned,
\* and the routine's locals (the anchor, the bounding box it read, the offset)
AlignOutcome(objs, result, anchor, bbox, target, offset) ==
    [objects |-> objs, result |-> result, anchor |-> anchor,
     min_corner |-> bbox.min_corner, max_corner |-> bbox.max_corner,
     center |-> bbox.center, target |-> target, offset |-> offset]

\* the guard is missing
IsEmptyList_Never(list) == FALSE

\* if not imported_objs
IsEmptyList(list) == list = <<>>

\* if center is None: return
UnmovedAnchor_ReturnNone(parented, empty) ==
    AlignOutcome(parented, None, empty, NoBBox, NoneVec, NoneVec)

\* CE-trees-to-grid.py: if center is None: return empty
UnmovedAnchor(parented, empty) ==
    AlignOutcome(parented, empty, empty, NoBBox, NoneVec, NoneVec)

\* the anchor is created, linked to the collection and made parent of every fragment
WithAnchor(objs, imported_objs, name, coll, keep) ==
    SetParentAll(Link(Append(objs, NewEmpty(name)), Len(objs) + 1, coll),
                 imported_objs, Len(objs) + 1, keep)

\* CE-Tree-Grid.py and Ce-Tree-Grid-with-Select-and-Zoom.py (the same text):
\* no return statement, so the value of every call is None
align_group_with_empty_CE(objs, imported_objs, cell_x, cell_y, s, name, coll, keep) ==
    IF IsEmptyList(imported_objs)
    THEN AlignOutcome(objs, None, None, NoBBox, NoneVec, NoneVec)
    ELSE LET style_empty == Len(objs) + 1
             parented == WithAnchor(objs, imported_objs, name, coll, keep)
             all_coords == WorldCoords(parented, imported_objs)
             bbox == compute_world_bbox(parented, imported_objs)
             target == grid_cell_center(cell_x, cell_y, s)
             offset == PlacementOffset(bbox.min_corner, bbox.center, target)
         IN  IF all_coords # {}
             THEN AlignOutcome(MoveBy(parented, style_empty, offset), None,
                               style_empty, bbox, target, offset)
             ELSE AlignOutcome(parented, None, style_empty, NoBBox, NoneVec, NoneVec)

\* CE-trees-to-grid.py
align_group_with_empty_Trees(objs, imported_objs, cell_x, cell_y, s, name, coll, keep) ==
    IF IsEmptyList(imported_objs)
    THEN AlignOutcome(objs, None, None, NoBBox, NoneVec, NoneVec)
    ELSE LET empty == Len(objs) + 1
             parented == WithAnchor(objs, imported_objs, name, coll, keep)
             bbox == compute_world_bbox(parented, imported_objs)
             target == grid_cell_center(cell_x, cell_y, s)
             offset == PlacementOffset(bbox.min_corner, bbox.center, target)
         IN  IF bbox.center = NoneVec
             THEN UnmovedAnchor(parented, empty)
             ELSE AlignOutcome(MoveBy(parented, empty, offset), empty, empty, bbox,
                               target, offset)

align_group_with_empty(v, objs, imported_objs, cell_x, cell_y, s, name, coll, keep) ==
    IF v = CETreesToGrid
    THEN align_group_with_empty_Trees(objs, imported_objs, cell_x, cell_y, s, name, coll, keep)
    ELSE align_group_with_empty_CE(objs, imported_objs, cell_x, cell_y, s, name, coll, keep)

\* the label is put at the top of the box, the vertical offset forgotten
LabelLocation_NoOffset(bbox, offset) ==
    LET center == IF bbox.center = NoneVec THEN ZeroVector ELSE bbox.center
        max_corner == IF bbox.center = NoneVec THEN ZeroVector ELSE bbox.max_corner
    IN  Vector(center[1], center[2], max_corner[3])

\* loc = Vector((center.x, center.y, max_corner.z + offset)), None read as the origin
LabelLocation(bbox, offset) ==
    LET center == IF bbox.center = NoneVec THEN ZeroVector ELSE bbox.center
        max_corner == IF bbox.center = NoneVec THEN ZeroVector ELSE bbox.max_corner
    IN  Vector(center[1], center[2], max_corner[3] + offset)

\* add_text(loc, text, size, mat): the new text object is the value returned
add_text(objs, loc, text, coll) ==
    [objects |-> Append(objs, NewText(text, loc, coll)), result |-> Len(objs) + 1]

\* CE-trees-to-grid.py only
add_text_above_group(objs, ids, text, offset, coll) ==
    add_text(objs, LabelLocation(compute_world_bbox(objs, ids), offset), text, coll)

-----------------------------------------------------------------------------
(* The placement routines called on one imported group *)

\* what the importer can bring in: a mesh at a location with a bounding box, or
\* a mesh whose bounding box yields no corner
FragKinds ==
    << [location |-> Vector(U(0), U(0), U(0)),
        bound_box |-> UnitCube],
       [location |-> Vector(U(10), U(10), U(2)),
        bound_box |-> Corners(Vector(U(0), U(0), U(0)), Vector(U(10), U(4), U(4)))],
       [location |-> Vector(U(-7), U(5), U(3)),
        bound_box |-> Corners(Vector(U(-1), U(0), U(-2)), Vector(U(2), U(1), U(0)))],
       [location |-> Vector(U(3), U(-4), U(-1)),
        bound_box |-> NoCorners] >>

\* the groups of n fragments, each listed in the order of FragKinds
GroupShapes(n) ==
    {f \in [1..n -> 1..Len(FragKinds)] : \A i, j \in 1..n : i < j => f[i] <= f[j]}

\* the cells the group is sent to: the first cell, the farthest column, the farthest row
Cells == {<<0, 0>>, <<MaxCell, 0>>, <<0, MaxCell>>}

\* a collection is known by its name and its rank of creation
TreeCollection == <<"tree_collection", 1>>

SceneCollection == <<"Scene Collection", 0>>

Missing == -1

NoName == ""            \* Python None where the name of an object is expected

\* no LOD editing script is in use
NoSession ==
    /\ script = ""
    /\ registered = FALSE
    /\ scene = <<>>
    /\ original_positions_store = <<>>
    /\ original_geometry_store = <<>>
    /\ selected_reference_name = NoName
    /\ scene_offset_vector = ZeroVector
    /\ invoked = <<>>
    /\ since_move = <<>>
    /\ moves = 0
    /\ edits = 0

\* the operator has not been run
Idle ==
    /\ folders = <<>>
    /\ fault = <<>>
    /\ reverse_rows = FALSE
    /\ label_mode = "MODEL"
    /\ pc = "idle"
    /\ outer = 0
    /\ inner = 0
    /\ collections = <<>>
    /\ checkerboard = <<>>
    /\ reports = <<>>
    /\ total = 0
    /\ status = ""

\* make_checkerboard: the plane of cell (x, y)
CheckerPlane(x, y, s) ==
    NewPlane("Cell", Vector(x * s + s \div 2, (-y) * s - s \div 2, 0), s, SceneCollection)

NoCall ==
    [op |-> "none", n |-> 0, imported_objs |-> <<>>, cell_x |-> 0, cell_y |-> 0,
     text_offset |-> 0, result |-> None, anchor |-> None,
     min_corner |-> NoneVec, max_corner |-> NoneVec, center |-> NoneVec,
     target |-> NoneVec, offset |-> NoneVec, before |-> <<>>]

Init ==
    /\ variant \in Variants
    /\ spacing \in Spacings
    /\ keep_world \in BOOLEAN
    /\ objects = <<CheckerPlane(0, 0, spacing)>>
    /\ groups = <<>>
    /\ call = NoCall
    /\ Idle
    /\ NoSession

\* bpy.ops.import_scene.gltf; imported_objs = list(context.selected_objects),
\* relinked to the tree collection
Import ==
    /\ groups = <<>>
    /\ \E n \in 0..MaxFrags : \E f \in GroupShapes(n) :
          /\ objects' = objects \o
                 [k \in 1..n |-> NewMesh("mesh", FragKinds[f[k]].location,
                                         FragKinds[f[k]].bound_box, TreeCollection)]
          /\ groups' = <<[ids |-> [k \in 1..n |-> Len(objects) + k],
                           coll |-> TreeCollection]>>
    /\ call' = [NoCall EXCEPT !.op = "import", !.n = call.n,
                              !.imported_objs = groups'[1].ids, !.before = objects]
    /\ UNCHANGED <<variant, spacing, keep_world, operator>>
    /\ UNCHANGED session

\* align_group_with_empty(imported_objs, cell_x, cell_y, spacing, name, collection)
Align ==
    /\ groups # <<>>
    /\ call.n < MaxCalls
    /\ \E cell \in Cells :
          \E out \in {align_group_with_empty(variant, objects, groups[1].ids, cell[1],
                                             cell[2], spacing, "anchor", groups[1].coll,
                                             keep_world)} :
              /\ objects' = out.objects
              /\ call' = [op |-> "align", n |-> call.n + 1, imported_objs |-> groups[1].ids,
                          cell_x |-> cell[1], cell_y |-> cell[2], text_offset |-> 0,
                          result |-> out.result, anchor |-> out.anchor,
                          min_corner |-> out.min_corner, max_corner |-> out.max_corner,
                          center |-> out.center, target |-> out.target,
                          offset |-> out.offset, before |-> objects]
    /\ UNCHANGED <<variant, spacing, keep_world, groups, operator>>
    /\ UNCHANGED session

\* add_text_above_group(objs, text, size, offset, mat)
Label ==
    /\ variant = CETreesToGrid
    /\ groups # <<>>
    /\ call.n < MaxCalls
    /\ \E text_offset \in TextOffsets :
          \E bbox \in {compute_world_bbox(objects, groups[1].ids)},
             out \in {add_text_above_group(objects, groups[1].ids, "label", text_offset,
                                           SceneCollection)} :
              /\ objects' = out.objects
              /\ call' = [op |-> "text", n |-> call.n + 1, imported_objs |-> groups[1].ids,
                          cell_x |-> 0, cell_y |-> 0, text_offset |-> text_offset,
                          result |-> out.result, anchor |-> None,
                          min_corner |-> bbox.min_corner, max_corner |-> bbox.max_corner,
                          center |-> bbox.center, target |-> NoneVec,
                          offset |-> NoneVec, before |-> objects]
    /\ UNCHANGED <<variant, spacing, keep_world, groups, operator>>
    /\ UNCHANGED session

Next == Import \/ Align \/ Label

Spec == Init /\ [][Next]_vars

-----------------------------------------------------------------------------
(* The import operators: CE_OT_import_grid.execute, TREE_OT_import_grid.execute *)

STYLE_ORDER == <<"Schematic", "LowPoly", "Fan", "Realistic">>

Styles == {STYLE_ORDER[k] : k \in DOMAIN STYLE_ORDER}

StyleIndex(style) == CHOOSE k \in DOMAIN STYLE_ORDER : STYLE_ORDER[k] = style

\* styles.reverse()
Reversed(list) == [k \in DOMAIN list |-> list[Len(list) + 1 - k]]

\* the flag is not looked at
RowStyles_Unreversed(reverse) == STYLE_ORDER

\* styles = list(STYLE_ORDER); if reverse: styles.reverse()
RowStyles(reverse) == IF reverse THEN Reversed(STYLE_ORDER) ELSE STYLE_ORDER

\* the .glb files of a style folder, sorted: file k of style s is <<s, k>>, k from 0
FileCount(style) == IF folders[style] = Missing THEN 0 ELSE folders[style]

Assets == {<<style, k>> : style \in Styles, k \in 0..(MaxFiles - 1)}

Present(file) == file[2] < FileCount(file[1])

\* what a file holds: the number of mesh objects importing it selects
FragCount(file) == (StyleIndex(file[1]) + file[2]) % (MaxFrags + 1)

\* the meshes of a file, as the glTF importer creates them
FileMeshes(file) ==
    [m \in 1..FragCount(file) |->
        LET kind == FragKinds[((StyleIndex(file[1]) + file[2] + m) % Len(FragKinds)) + 1]
        IN  NewMesh("mesh", kind.location, kind.bound_box, SceneCollection)]

\* the places of the try block where the host can raise
Stages == {"import", "place"}

\* the host raises for this file at this stage
Fails(file, stage) == fault = <<file, stage>>

\* the importer raises and takes back the mesh it had created
ImportGltf_CleansUp(objs, file) ==
    IF Fails(file, "import")
    THEN [raised |-> TRUE, selected |-> <<>>, objects |-> objs]
    ELSE [raised |-> FALSE,
          selected |-> [m \in 1..FragCount(file) |-> Len(objs) + m],
          objects |-> objs \o FileMeshes(file)]

\* bpy.ops.import_scene.gltf(filepath=file); list(context.selected_objects).
\* Importing the faulty file raises, one of its meshes already created.
ImportGltf(objs, file) ==
    IF Fails(file, "import")
    THEN [raised |-> TRUE, selected |-> <<>>,
          objects |-> Append(objs, NewMesh("partial", ZeroVector, UnitCube, SceneCollection))]
    ELSE [raised |-> FALSE,
          selected |-> [m \in 1..FragCount(file) |-> Len(objs) + m],
          objects |-> objs \o FileMeshes(file)]

\* the object is unlinked from every other collection and linked to coll
Relink(objs, i, coll) ==
    [objs EXCEPT ![i].users_collection = {c \in @ : c = coll} \cup {coll}]

RECURSIVE RelinkAll(_, _, _)
\* for obj in imported_objs: ... tree_collection.objects.link(obj)
RelinkAll(objs, list, coll) ==
    IF list = <<>> THEN objs ELSE RelinkAll(Relink(objs, Head(list), coll), Tail(list), coll)

\* tree_files: the number of trees is the largest number of files in a style folder
TreeCount == SetMax({FileCount(style) : style \in Styles})

\* the warnings for the missing style folders, in the order of STYLE_ORDER
RECURSIVE MissingWarnings(_)
MissingWarnings(list) ==
    IF list = <<>>
    THEN <<>>
    ELSE (IF folders[Head(list)] = Missing
          THEN <<[level |-> "WARNING", text |-> "Missing style folder", about |-> Head(list)]>>
          ELSE <<>>) \o MissingWarnings(Tail(list))

\* for cx in range(cols): for cy in range(rows): primitive_plane_add(...)
make_checkerboard(objs, cols, rows, s) ==
    objs \o [k \in 1..(cols * rows) |-> CheckerPlane((k - 1) \div rows, (k - 1) % rows, s)]

\* the label of a tree: a text at the centre of the cell, lifted to z = 1.0
add_text_to_cell(objs, text, cell_x, cell_y, s) ==
    LET center == grid_cell_center(cell_x, cell_y, s)
    IN  add_text(objs, Vector(center[1], center[2], U(1)), text, SceneCollection)

IsCE == variant \in {CETreeGrid, CETreeGridSelectZoom}

\* extra_row = 1 if mode in ['FOLDER','BOTH'] else 0
ExtraRow == IF label_mode \in {"FOLDER", "BOTH"} THEN 1 ELSE 0

\* the number of turns of the outer loop (trees, or styles) and of the inner loop
OuterCount == IF IsCE THEN TreeCount ELSE Len(STYLE_ORDER)

InnerCount ==
    IF IsCE THEN Len(RowStyles(reverse_rows)) ELSE FileCount(STYLE_ORDER[outer + 1])

\* the file the inner loop is at, and the cell it goes to
CurrentStyle == IF IsCE THEN RowStyles(reverse_rows)[inner + 1] ELSE STYLE_ORDER[outer + 1]

CurrentFile == IF IsCE THEN <<CurrentStyle, outer>> ELSE <<CurrentStyle, inner>>

CurrentCell == <<outer, inner>>

CurrentCollection == collections[Len(collections)]

InitRun ==
    /\ variant \in Variants
    /\ spacing = U(DefaultSpacing)
    /\ keep_world = FALSE
    /\ objects = <<>>
    /\ groups = <<>>
    /\ call = NoCall
    /\ folders \in [Styles -> {Missing, 0, MaxFiles}]
    /\ fault \in {<<>>} \cup {<<file, stage>> : file \in {f \in Assets : Present(f)},
                                                stage \in Stages}
    /\ reverse_rows \in (IF IsCE THEN BOOLEAN ELSE {FALSE})
    /\ label_mode \in (IF IsCE THEN {"MODEL"} ELSE {"MODEL", "FOLDER", "BOTH"})
    /\ pc = "idle"
    /\ outer = 0
    /\ inner = 0
    /\ collections = <<>>
    /\ checkerboard = <<>>
    /\ reports = <<>>
    /\ total = 0
    /\ status = ""
    /\ NoSession

\* execute, up to the loops: the files are gathered and the checkerboard is made
Execute_Begin ==
    /\ pc = "idle"
    /\ IF IsCE
       THEN /\ reports' = reports \o MissingWarnings(STYLE_ORDER)
            /\ checkerboard' = <<TreeCount, Len(RowStyles(reverse_rows)) + 3>>
            /\ pc' = "outer"
            /\ status' = status
       ELSE IF \A style \in Styles : folders[style] = Missing
            THEN /\ reports' = Append(reports, [level |-> "WARNING",
                                                text |-> "No style folders found.",
                                                about |-> ""])
                 /\ checkerboard' = checkerboard
                 /\ pc' = "done"
                 /\ status' = "CANCELLED"
            ELSE /\ reports' = reports
                 /\ checkerboard' = <<Len(STYLE_ORDER), TreeCount + ExtraRow>>
                 /\ pc' = "outer"
                 /\ status' = status
    /\ objects' = IF checkerboard' = <<>>
                  THEN objects
                  ELSE make_checkerboard(objects, checkerboard'[1], checkerboard'[2], spacing)
    /\ UNCHANGED <<variant, spacing, keep_world, groups, call, folders, fault, reverse_rows,
                   label_mode, outer, inner, collections, total>>
    /\ UNCHANGED session

\* a turn of the outer loop begins: the collection of the tree, or of the style
Execute_NewCollection ==
    /\ pc = "outer"
    /\ outer < OuterCount
    /\ collections' = Append(collections, <<IF IsCE THEN "tree" ELSE STYLE_ORDER[outer + 1],
                                            Len(collections) + 1>>)
    /\ inner' = 0
    /\ pc' = "inner"
    /\ UNCHANGED <<placement, folders, fault, reverse_rows, label_mode, outer,
                   checkerboard, reports, total, status>>
    /\ UNCHANGED session

\* what one turn of the inner loop leaves, the file imported, relinked and placed;
\* when the host raises on the call of align_group_with_empty the meshes stay as
\* they were relinked
TurnOutcome(objs, file, cell, coll) ==
    LET imp == ImportGltf(objs, file)
        relinked == RelinkAll(imp.objects, imp.selected, coll)
        placed == align_group_with_empty(variant, relinked, imp.selected, cell[1], cell[2],
                                         spacing, file[1], coll, keep_world)
        labelled ==
            IF variant = CETreesToGrid /\ imp.selected # <<>>
                                       /\ label_mode \in {"MODEL", "BOTH"}
            THEN add_text_above_group(placed.objects, imp.selected, file[1],
                                      U(DefaultTextOffset), SceneCollection).objects
            ELSE placed.objects
    IN  IF imp.raised
        THEN [raised |-> TRUE, objects |-> imp.objects, placed |-> <<>>]
        ELSE IF Fails(file, "place")
        THEN [raised |-> TRUE, objects |-> relinked, placed |-> <<>>]
        ELSE [raised |-> FALSE, objects |-> labelled,
              placed |-> <<[ids |-> imp.selected, coll |-> coll, file |-> file,
                            cell_x |-> cell[1], cell_y |-> cell[2],
                            anchor |-> placed.anchor, result |-> placed.result]>>]

\* one turn of the inner loop
Execute_Turn ==
    /\ pc = "inner"
    /\ inner < InnerCount
    /\ IF IsCE /\ ~Present(CurrentFile)
       THEN UNCHANGED <<objects, groups, reports, total>>
       ELSE \E out \in {TurnOutcome(objects, CurrentFile, CurrentCell, CurrentCollection)} :
               /\ objects' = out.objects
               /\ groups' = groups \o out.placed
               /\ reports' = IF out.raised
                             THEN Append(reports, [level |-> "ERROR", text |-> "Failed",
                                                   about |-> CurrentFile])
                             ELSE reports
               /\ total' = IF ~out.raised /\ ~IsCE THEN total + 1 ELSE total
    /\ inner' = inner + 1
    /\ UNCHANGED <<variant, spacing, keep_world, call, folders, fault, reverse_rows,
                   label_mode, pc, outer, collections, checkerboard, status>>
    /\ UNCHANGED session

\* a turn of the outer loop ends: the label of the tree, or of the style folder
Execute_Label ==
    /\ pc = "inner"
    /\ inner = InnerCount
    /\ LET loc == grid_cell_center(outer, inner, spacing)
       IN  objects' =
              IF IsCE
              THEN add_text_to_cell(objects, "tree", outer, Len(RowStyles(reverse_rows)),
                                    spacing).objects
              ELSE IF label_mode \in {"FOLDER", "BOTH"}
                   THEN add_text(objects, Vector(loc[1], loc[2], U(DefaultTextOffset)),
                                 STYLE_ORDER[outer + 1], SceneCollection).objects
                   ELSE objects
    /\ outer' = outer + 1
    /\ pc' = "outer"
    /\ UNCHANGED <<variant, spacing, keep_world, groups, call, folders, fault, reverse_rows,
                   label_mode, inner, collections, checkerboard, reports, total, status>>
    /\ UNCHANGED session

\* the loops are over: return {'FINISHED'}
Execute_Return ==
    /\ pc = "outer"
    /\ outer = OuterCount
    /\ reports' = IF IsCE THEN reports
                  ELSE Append(reports, [level |-> "INFO", text |-> "Imported models.",
                                        about |-> total])
    /\ status' = "FINISHED"
    /\ pc' = "done"
    /\ UNCHANGED <<placement, folders, fault, reverse_rows, label_mode, outer, inner,
                   collections, checkerboard, total>>
    /\ UNCHANGED session

NextRun ==
    \/ Execute_Begin
    \/ Execute_NewCollection
    \/ Execute_Turn
    \/ Execute_Label
    \/ Execute_Return

SpecRun == InitRun /\ [][NextRun]_vars

-----------------------------------------------------------------------------
(* The LOD editing scripts: Edit-large-3D-LOD-model.py and                 *)
(* Edit-large-3d_LOD-models-improved.py                                     *)

LODModel == "Edit-large-3D-LOD-model"
LODImproved == "Edit-large-3d_LOD-models-improved"

Scripts == {LODModel, LODImproved}

\* the names objects of the scene can have, in the order bpy.context.scene.objects
\* lists them
NameOrder == <<"Tile_A", "Tile_B", "Lamp", "Tile_New">>

Names == {NameOrder[k] : k \in DOMAIN NameOrder}

\* an object of the LOD scene: its type, its location, the world translation of its
\* parent (zero when it has none) and the vertices of its mesh data
SceneObject(type, location, origin, verts) ==
    [type |-> type, location |-> location, origin |-> origin, verts |-> verts]

\* obj.matrix_world, a translation
World(obj) == VecAdd(obj.origin, obj.location)

VecNeg(a) == Vector(-a[1], -a[2], -a[3])

RECURSIVE VecSum(_)
\* sum((v.co for v in bm.verts), mathutils.Vector())
VecSum(verts) == IF verts = <<>> THEN ZeroVector ELSE VecAdd(Head(verts), VecSum(Tail(verts)))

\* the centre of geometry: the mean of the vertices, the origin for a mesh without
GeometryCenter(verts) ==
    IF verts = <<>>
    THEN ZeroVector
    ELSE LET total_co == VecSum(verts)
         IN  Vector(total_co[1] \div Len(verts), total_co[2] \div Len(verts),
                    total_co[3] \div Len(verts))

\* for v in bm.verts: v.co -= geometry_center
Recentred(verts) == [k \in DOMAIN verts |-> VecSub(verts[k], GeometryCenter(verts))]

IsMesh(sc, name) == name \in DOMAIN sc /\ sc[name].type = "MESH"

RECURSIVE Filter(_, _)
\* the names of a list that are mesh objects of the scene, in the order of the list
Filter(list, sc) ==
    IF list = <<>>
    THEN <<>>
    ELSE (IF IsMesh(sc, Head(list)) THEN <<Head(list)>> ELSE <<>>) \o Filter(Tail(list), sc)

\* [obj for obj in bpy.context.scene.objects if obj.type == 'MESH']
MeshObjects(sc) == Filter(NameOrder, sc)

\* the session as the operators read and write it
SessionState ==
    [scene |-> scene,
     positions |-> original_positions_store,
     geometry |-> original_geometry_store,
     reference |-> selected_reference_name,
     offset |-> scene_offset_vector]

\* what an operator leaves: the session, the value returned, and what it reported
Outcome(st, value, level, text, count) ==
    [state |-> st, status |-> value, level |-> level, text |-> text, count |-> count]

\* the offset is reset before the operator gives up
Cancelled_ResetsOffset(st, text) ==
    Outcome([st EXCEPT !.offset = <<0, 0, 0>>], "CANCELLED", "WARNING", text, 0)

\* self.report({'WARNING'}, ...); return {'CANCELLED'}
Cancelled(st, text) == Outcome(st, "CANCELLED", "WARNING", text, 0)

\* {name for name, _ in original_positions_store}
StoredNames(positions) == {positions[k][1] : k \in DOMAIN positions}

\* OBJECT_OT_SelectRandomModel.execute, random.choice giving ref
SelectRandomModel(st, ref) ==
    IF MeshObjects(st.scene) = <<>>
    THEN Cancelled(st, "No mesh objects in scene.")
    ELSE Outcome([st EXCEPT !.reference = ref], "FINISHED", "INFO", "Selected random model", 0)

\* the stores are not cleared first: the snapshot is added to the one already held
MoveReferenceToOrigin_KeepsSnapshot(st) ==
    IF st.reference = NoName
    THEN Cancelled(st, "No reference object selected.")
    ELSE IF st.reference \notin DOMAIN st.scene
    THEN Cancelled(st, "Reference object not found.")
    ELSE LET ref_obj == st.scene[st.reference]
             meshes == MeshObjects(st.scene)
             geometry_center == GeometryCenter(ref_obj.verts)
             offset_vector == VecNeg(VecAdd(World(ref_obj), geometry_center))
         IN  Outcome(
                [scene |->
                    [n \in DOMAIN st.scene |->
                        IF n = st.reference
                        THEN [ref_obj EXCEPT !.verts = Recentred(@),
                                             !.location = <<0, 0, 0>>]
                        ELSE IF st.scene[n].type = "MESH"
                        THEN [st.scene[n] EXCEPT !.location = VecAdd(@, offset_vector)]
                        ELSE st.scene[n]],
                 positions |->
                    IF st.positions # <<>>
                    THEN st.positions
                    ELSE [k \in DOMAIN meshes |-> <<meshes[k], st.scene[meshes[k]].location>>],
                 geometry |->
                    IF st.positions # <<>>
                    THEN st.geometry
                    ELSE [n \in {st.reference} |-> ref_obj.verts],
                 reference |-> st.reference,
                 offset |-> offset_vector],
                "FINISHED", "INFO", "Centered", Len(meshes))

\* OBJECT_OT_MoveReferenceToOrigin.execute
MoveReferenceToOrigin(st) ==
    IF st.reference = NoName
    THEN Cancelled(st, "No reference object selected.")
    ELSE IF st.reference \notin DOMAIN st.scene
    THEN Cancelled(st, "Reference object not found.")
    ELSE LET ref_obj == st.scene[st.reference]
             meshes == MeshObjects(st.scene)
             geometry_center == GeometryCenter(ref_obj.verts)
             geometry_center_world == VecAdd(World(ref_obj), geometry_center)
             offset_vector == VecNeg(geometry_center_world)
         IN  Outcome(
                [scene |->
                    [n \in DOMAIN st.scene |->
                        IF n = st.reference
                        THEN [ref_obj EXCEPT !.verts = Recentred(@),
                                             !.location = ZeroVector]
                        ELSE IF st.scene[n].type = "MESH"
                        THEN [st.scene[n] EXCEPT !.location = VecAdd(@, offset_vector)]
                        ELSE st.scene[n]],
                 positions |->
                    [k \in DOMAIN meshes |-> <<meshes[k], st.scene[meshes[k]].location>>],
                 geometry |-> [n \in {st.reference} |-> ref_obj.verts],
                 reference |-> st.reference,
                 offset |-> offset_vector],
                "FINISHED", "INFO", "Centered", Len(meshes))

\* every mesh of the scene is taken for new
NewMeshes_All(st) == MeshObjects(st.scene)

\* the new meshes: mesh objects of the scene whose name is not stored
NewMeshes(st) ==
    SelectSeq(MeshObjects(st.scene), LAMBDA n : n \notin StoredNames(st.positions))

\* original_location = obj.location.copy() - scene_offset_vector
RegisteredLocation(st, name) == VecSub(st.scene[name].location, st.offset)

\* OBJECT_OT_RegisterNewMeshes.execute
RegisterNewMeshes(st) ==
    IF st.positions = <<>>
    THEN Cancelled(st, "No active session. Move reference to origin first.")
    ELSE IF NewMeshes(st) = <<>>
    THEN Outcome(st, "FINISHED", "INFO", "No new mesh objects found.", 0)
    ELSE LET new_meshes == NewMeshes(st)
         IN  Outcome([st EXCEPT !.positions =
                         @ \o [k \in DOMAIN new_meshes |->
                                  <<new_meshes[k], RegisteredLocation(st, new_meshes[k])>>]],
                     "FINISHED", "INFO", "Registered new mesh objects for restore.",
                     Len(new_meshes))

\* only the first stored location is written back
RestoredLocations_FirstOnly(sc, positions) ==
    IF positions = <<>> \/ Head(positions)[1] \notin DOMAIN sc
    THEN sc
    ELSE [sc EXCEPT ![Head(positions)[1]].location = Head(positions)[2]]

RECURSIVE RestoredLocations(_, _)
\* for name, orig_loc in original_positions_store: obj.location = orig_loc
RestoredLocations(sc, positions) ==
    IF positions = <<>>
    THEN sc
    ELSE LET name == Head(positions)[1]
         IN  RestoredLocations(
                 IF name \in DOMAIN sc
                 THEN [sc EXCEPT ![name].location = Head(positions)[2]]
                 ELSE sc,
                 Tail(positions))

\* the meshes are left as the session has made them
RestoredGeometry_Keeps(sc, geometry) == sc

\* for obj_name, original_mesh in original_geometry_store.items(): obj.data = original_mesh
RestoredGeometry(sc, geometry) ==
    [n \in DOMAIN sc |->
        IF n \in DOMAIN geometry /\ sc[n].type = "MESH"
        THEN [sc[n] EXCEPT !.verts = geometry[n]]
        ELSE sc[n]]

\* the offset is left as it is
Cleared_KeepsOffset(st) == [st EXCEPT !.positions = <<>>, !.geometry = <<>>]

\* the positions store is left as it is
Cleared_KeepsPositions(st) == [st EXCEPT !.geometry = <<>>, !.offset = ZeroVector]

\* the stores are emptied and the offset is reset
Cleared(st) == [st EXCEPT !.positions = <<>>, !.geometry = <<>>, !.offset = ZeroVector]

\* every stored entry is counted, its object found or not
RestoreOriginalPosition_CountsEntries(st) ==
    IF st.positions = <<>>
    THEN Cancelled(st, "No stored positions found. Move reference to origin first.")
    ELSE Outcome(
            Cleared([st EXCEPT !.scene =
                        RestoredGeometry(RestoredLocations(st.scene, st.positions),
                                         st.geometry)]),
            "FINISHED", "INFO", "Restored objects to original positions and geometry.",
            Len(st.positions))

\* OBJECT_OT_RestoreOriginalPosition.execute
RestoreOriginalPosition(st) ==
    IF st.positions = <<>>
    THEN Cancelled(st, "No stored positions found. Move reference to origin first.")
    ELSE Outcome(
            Cleared([st EXCEPT !.scene =
                        RestoredGeometry(RestoredLocations(st.scene, st.positions),
                                         st.geometry)]),
            "FINISHED", "INFO", "Restored objects to original positions and geometry.",
            Len(SelectSeq(st.positions, LAMBDA entry : entry[1] \in DOMAIN st.scene)))

\* the reference is forgotten as well
ClearSession_ForgetsReference(st) ==
    Outcome([st EXCEPT !.positions = <<>>, !.geometry = <<>>, !.offset = <<0, 0, 0>>,
                       !.reference = ""],
            "FINISHED", "INFO", "Cleared all stored LOD model data.", 0)

\* OBJECT_OT_ClearSession.execute (Edit-large-3d_LOD-models-improved.py)
ClearSession(st) ==
    Outcome(Cleared(st), "FINISHED", "INFO", "Cleared all stored LOD model data.", 0)

\* OBJECT_OT_UninstallLargeLODModel.execute (Edit-large-3D-LOD-model.py)
UninstallLargeLODModel(st) ==
    Outcome(Cleared(st), "FINISHED", "INFO", "addon has been unregistered.", 0)

\* the grid importers are not in use
NoPlacement ==
    /\ variant = ""
    /\ spacing = 0
    /\ keep_world = FALSE
    /\ objects = <<>>
    /\ groups = <<>>
    /\ call = NoCall

\* the vertices of a tile, and of a tile after the user has edited its mesh
TileVerts == <<Vector(U(2), U(0), U(0)), Vector(U(6), U(4), U(0))>>

EditedVerts == <<Vector(U(0), U(0), U(4))>>

\* where the parent of a parented tile is
ParentAt == Vector(U(100), U(0), U(0))

\* where the user puts a new tile, and by how much the user moves an object
NewTileAt == Vector(U(3), U(-5), U(0))

Nudge == Vector(U(1), U(-2), U(0))

\* the scene a session starts from: two tiles far from the origin, the second one
\* parented and with a mesh that has no vertex, and a lamp
StartScene ==
    [n \in {"Tile_A", "Tile_B", "Lamp"} |->
        CASE n = "Tile_A" ->
                 SceneObject("MESH", Vector(U(1000), U(2000), U(40)), ZeroVector, TileVerts)
          [] n = "Tile_B" ->
                 SceneObject("MESH", Vector(U(1010), U(1980), U(44)), ParentAt, <<>>)
          [] n = "Lamp" ->
                 SceneObject("LIGHT", Vector(U(5), U(5), U(5)), ZeroVector, <<>>)]

\* what the user edits by hand: the tile moved, the tile deleted, the tile whose mesh
\* is edited
Moved == "Tile_B"

Deleted == "Tile_A"

Remeshed == "Tile_A"

\* the kinds of step a session is made of
Operators == {"Select", "Move", "Register", "Restore", "Clear", "Uninstall"}

UserEdits == {"moved", "added", "deleted", "edited"}

NoOperator == [op |-> "none", status |-> "", level |-> "", text |-> "", count |-> 0]

\* what is remembered since the last successful Move: the session before it, the
\* kinds of edit the user has made since, how many times Restore has been run since,
\* and the meshes registered since, each with the location it was registered at
NotMoved == [before |-> <<>>, ops |-> {}, restores |-> 0, added |-> {}]

InitLOD ==
    /\ NoPlacement
    /\ Idle
    /\ script \in Scripts
    /\ registered = TRUE
    /\ scene = StartScene
    /\ original_positions_store = <<>>
    /\ original_geometry_store = <<>>
    /\ selected_reference_name = NoName
    /\ scene_offset_vector = ZeroVector
    /\ invoked = NoOperator
    /\ since_move = NotMoved
    /\ moves = 0
    /\ edits = 0

\* the session after a step, and the record of the step
Becomes(op, out) ==
    /\ scene' = out.state.scene
    /\ original_positions_store' = out.state.positions
    /\ original_geometry_store' = out.state.geometry
    /\ selected_reference_name' = out.state.reference
    /\ scene_offset_vector' = out.state.offset
    /\ invoked' = [op |-> op, status |-> out.status, level |-> out.level,
                   text |-> out.text, count |-> out.count]
    /\ since_move' = IF op = "Move" /\ out.status = "FINISHED"
                     THEN [before |-> SessionState, ops |-> {}, restores |-> 0,
                           added |-> {}]
                     ELSE IF since_move = NotMoved
                     THEN since_move
                     ELSE IF op = "Restore"
                     THEN [since_move EXCEPT !.restores = IF @ < 2 THEN @ + 1 ELSE @]
                     ELSE IF op = "Register"
                     THEN [since_move EXCEPT !.added =
                              @ \cup {<<n, scene[n].location>> :
                                        n \in StoredNames(out.state.positions)
                                                 \ StoredNames(original_positions_store)}]
                     ELSE IF op \in UserEdits
                     THEN [since_move EXCEPT !.ops = @ \cup {op}]
                     ELSE since_move
    /\ moves' = IF op = "Move" /\ out.status = "FINISHED" THEN moves + 1 ELSE moves
    /\ edits' = IF op \in UserEdits THEN edits + 1 ELSE edits
    /\ UNCHANGED <<script, placement, operator>>

\* the user presses a button of the panel
Pressed == registered

Select ==
    /\ Pressed
    /\ \E ref \in IF MeshObjects(scene) = <<>> THEN {NoName}
                  ELSE {MeshObjects(scene)[k] : k \in DOMAIN MeshObjects(scene)} :
          Becomes("Select", SelectRandomModel(SessionState, ref))
    /\ UNCHANGED registered

Move ==
    /\ Pressed
    /\ moves < MaxMoves
    /\ Becomes("Move", MoveReferenceToOrigin(SessionState))
    /\ UNCHANGED registered

Register ==
    /\ Pressed
    /\ Becomes("Register", RegisterNewMeshes(SessionState))
    /\ UNCHANGED registered

Restore ==
    /\ Pressed
    /\ Becomes("Restore", RestoreOriginalPosition(SessionState))
    /\ UNCHANGED registered

Clear ==
    /\ Pressed
    /\ script = LODImproved
    /\ Becomes("Clear", ClearSession(SessionState))
    /\ UNCHANGED registered

Uninstall ==
    /\ Pressed
    /\ script = LODModel
    /\ Becomes("Uninstall", UninstallLargeLODModel(SessionState))
    /\ registered' = FALSE

\* the user edits the scene by hand
Edited(op, sc) == Becomes(op, Outcome([SessionState EXCEPT !.scene = sc], "", "", "", 0))

UserMovesObject ==
    /\ edits < MaxEdits
    /\ Moved \in DOMAIN scene
    /\ Edited("moved", [scene EXCEPT ![Moved].location = VecAdd(@, Nudge)])
    /\ UNCHANGED registered

UserAddsMesh ==
    /\ edits < MaxEdits
    /\ "Tile_New" \notin DOMAIN scene
    /\ Edited("added", [n \in DOMAIN scene \cup {"Tile_New"} |->
                           IF n = "Tile_New"
                           THEN SceneObject("MESH", NewTileAt, ZeroVector, TileVerts)
                           ELSE scene[n]])
    /\ UNCHANGED registered

UserDeletesObject ==
    /\ edits < MaxEdits
    /\ Deleted \in DOMAIN scene
    /\ Edited("deleted", [n \in DOMAIN scene \ {Deleted} |-> scene[n]])
    /\ UNCHANGED registered

UserEditsMesh ==
    /\ edits < MaxEdits
    /\ IsMesh(scene, Remeshed)
    /\ scene[Remeshed].verts # EditedVerts
    /\ Edited("edited", [scene EXCEPT ![Remeshed].verts = EditedVerts])
    /\ UNCHANGED registered

NextLOD ==
    \/ Select
    \/ Move
    \/ Register
    \/ Restore
    \/ Clear
    \/ Uninstall
    \/ UserMovesObject
    \/ UserAddsMesh
    \/ UserDeletesObject
    \/ UserEditsMesh

SpecLOD == InitLOD /\ [][NextLOD]_vars

-----------------------------------------------------------------------------
(* Properties of the placement routines *)

ids == call.imported_objs

\* the least and the greatest world coordinate of a group along one axis
Lo(objs, list, axis) == SetMin({c[axis] : c \in WorldCoords(objs, list)})

Hi(objs, list, axis) == SetMax({c[axis] : c \in WorldCoords(objs, list)})

\* the group's box has its X/Y centre on the centre of cell (col, row) and rests on z = 0
CentredOn(objs, list, col, row) ==
    /\ Lo(objs, list, 1) + Hi(objs, list, 1) = 2 * (col * spacing) + spacing
    /\ Lo(objs, list, 2) + Hi(objs, list, 2) = -(2 * (row * spacing)) - spacing
    /\ Lo(objs, list, 3) = 0

\* the host keeps the world transform of every fragment of this call on reparenting
PreservesWorld ==
    keep_world \/ \A k \in DOMAIN ids : call.before[ids[k]].parent = None

AlignedSome == call.op = "align" /\ ids # <<>>

\* C1: after align_group_with_empty on a non-empty group whose fragments contribute
\* corners, the host preserving world transforms on reparenting, the union of the
\* group's world bounding box has its X/Y centre on the centre of the target cell
\* and its minimum Z equal to 0.
C1_PlacedOnCell ==
    (AlignedSome /\ WorldCoords(call.before, ids) # {} /\ PreservesWorld)
        => CentredOn(objects, ids, call.cell_x, call.cell_y)

C1_Witness ==
    /\ AlignedSome
    /\ Len(ids) = 2
    /\ \A k \in DOMAIN ids : objects[ids[k]].bound_box # NoCorners
    /\ objects[ids[1]].location # objects[ids[2]].location
    /\ call.cell_x = 1
    /\ call.offset # NoneVec /\ call.offset[3] # 0
    /\ CentredOn(objects, ids, call.cell_x, call.cell_y)

\* C2: align_group_with_empty called with an empty sequence is a no-op: no anchor
\* is created or linked, no object's parent or position changes, and the value
\* returned is None.
C2_EmptyIsNoOp ==
    (call.op = "align" /\ ids = <<>>)
        => /\ objects = call.before
           /\ call.result = None
           /\ call.anchor = None

C2_Witness ==
    /\ call.op = "align" /\ ids = <<>>
    /\ call.before # <<>>
    /\ objects = call.before
    /\ call.result = None

\* C3: grid_cell_center(col, row, spacing) is
\* (col*spacing + spacing/2, -row*spacing - spacing/2, 0); centres of adjacent
\* columns differ by spacing in X, centres of adjacent rows by spacing in Y, and a
\* larger row index gives a smaller Y.
C3_GridCellCenter ==
    /\ \A col \in 0..(MaxCell + 1), row \in 0..(MaxCell + 1) :
          LET c == grid_cell_center(col, row, spacing)
          IN  /\ 2 * c[1] = 2 * (col * spacing) + spacing
              /\ 2 * c[2] = -(2 * (row * spacing)) - spacing
              /\ c[3] = 0
              /\ grid_cell_center(col + 1, row, spacing)[1] - c[1] = spacing
              /\ grid_cell_center(col + 1, row, spacing)[2] = c[2]
              /\ c[2] - grid_cell_center(col, row + 1, spacing)[2] = spacing
              /\ grid_cell_center(col, row + 1, spacing)[1] = c[1]
              /\ \A lower \in (row + 1)..(MaxCell + 2) :
                    grid_cell_center(col, lower, spacing)[2] < c[2]
    /\ (call.op = "align" /\ call.target # NoneVec)
          => /\ 2 * call.target[1] = 2 * (call.cell_x * spacing) + spacing
             /\ 2 * call.target[2] = -(2 * (call.cell_y * spacing)) - spacing
             /\ call.target[3] = 0

C3_Witness ==
    /\ call.op = "align"
    /\ call.cell_y = 1
    /\ call.target = Vector(spacing \div 2, -(spacing + spacing \div 2), 0)

\* the example of the specification: three fragments whose combined world box is
\* min = (10, 10, 2), max = (20, 14, 6)
ExampleObjects ==
    << NewMesh("a", Vector(U(10), U(10), U(2)),
               Corners(Vector(U(0), U(0), U(0)), Vector(U(4), U(2), U(2))), TreeCollection),
       NewMesh("b", Vector(U(16), U(12), U(3)),
               Corners(Vector(U(0), U(0), U(0)), Vector(U(4), U(2), U(3))), TreeCollection),
       NewMesh("c", Vector(U(13), U(12), U(4)),
               UnitCube, TreeCollection) >>

\* the example placed on cell (1, 0) with spacing 50, by every script
ExampleOutcomes ==
    {align_group_with_empty(v, ExampleObjects, <<1, 2, 3>>, 1, 0, U(DefaultSpacing),
                            "anchor", TreeCollection, keep) :
        v \in Variants, keep \in BOOLEAN}

\* C4: for a non-empty group whose union world box is (min_corner, max_corner),
\* align_group_with_empty adds to the anchor's location exactly
\* offset = (target.x - center.x, target.y - center.y, -min_corner.z), with
\* center = (min_corner + max_corner) / 2 and target the cell centre; the example
\* min = (10,10,2), max = (20,14,6), cell (1,0), spacing 50 gives target (75,-25,0)
\* and offset (60,-37,-2).
C4_OffsetAdded ==
    /\ (AlignedSome /\ WorldCoords(call.before, ids) # {})
          => LET BoxLo(objs) == Vector(Lo(objs, ids, 1), Lo(objs, ids, 2), Lo(objs, ids, 3))
                 BoxHi(objs) == Vector(Hi(objs, ids, 1), Hi(objs, ids, 2), Hi(objs, ids, 3))
                 anchor == objects[call.anchor]
             IN  /\ PreservesWorld => /\ call.min_corner = BoxLo(call.before)
                                      /\ call.max_corner = BoxHi(call.before)
                 /\ VecAdd(call.min_corner, call.offset) = BoxLo(objects)
                 /\ VecAdd(call.max_corner, call.offset) = BoxHi(objects)
                 /\ VecAdd(call.center, call.center) =
                       VecAdd(call.min_corner, call.max_corner)
                 /\ call.offset = Vector(call.target[1] - call.center[1],
                                         call.target[2] - call.center[2],
                                         -call.min_corner[3])
                 /\ 2 * call.offset[1] =
                       2 * (call.cell_x * spacing) + spacing
                         - (call.min_corner[1] + call.max_corner[1])
                 /\ 2 * call.offset[2] =
                       -(2 * (call.cell_y * spacing)) - spacing
                         - (call.min_corner[2] + call.max_corner[2])
                 /\ call.offset[3] = -call.min_corner[3]
                 /\ anchor.location = VecAdd(ZeroVector, call.offset)
    /\ \A example \in ExampleOutcomes :
          /\ example.min_corner = Vector(U(10), U(10), U(2))
          /\ example.max_corner = Vector(U(20), U(14), U(6))
          /\ example.target = Vector(U(75), U(-25), U(0))
          /\ example.offset = Vector(U(60), U(-37), U(-2))
          /\ example.objects[4].location = Vector(U(60), U(-37), U(-2))

C4_Witness ==
    /\ AlignedSome
    /\ call.offset # NoneVec
    /\ call.offset[1] # 0 /\ call.offset[2] # 0 /\ call.offset[3] # 0
    /\ objects[call.anchor].location = call.offset
    /\ call.min_corner # call.max_corner

\* C5: for a non-empty fragment sequence the placement routine returns the anchor
\* it created, and returns None only for an empty sequence, in every script.
C5_ReturnsAnchor ==
    call.op = "align"
        => IF ids = <<>>
           THEN call.result = None
           ELSE /\ call.result # None
                /\ call.result = call.anchor
                /\ call.result = Len(call.before) + 1
                /\ objects[call.result].type = "EMPTY"

\* the group of this call is already placed on the cell the call names: every
\* fragment hangs from an anchor and the group's box is on the cell
AlreadyPlaced ==
    /\ AlignedSome
    /\ WorldCoords(call.before, ids) # {}
    /\ \A k \in DOMAIN ids : call.before[ids[k]].parent # None
    /\ CentredOn(call.before, ids, call.cell_x, call.cell_y)

\* the world position of every fragment of the call is what it was before the call
SameWorldPositions ==
    \A k \in DOMAIN ids : matrix_world(objects, ids[k]) = matrix_world(call.before, ids[k])

\* C6 as claimed: a second align_group_with_empty on an already-placed group with
\* the same cell and spacing yields a zero offset, leaves every fragment's world
\* position unchanged and is a no-op on the scene.
C6_SecondCallIsNoOp ==
    AlreadyPlaced
        => /\ call.offset = ZeroVector
           /\ SameWorldPositions
           /\ objects = call.before

\* C6 as amended: a second align_group_with_empty on an already-placed group with the
\* same cell and spacing leaves every fragment's world position and location
\* unchanged and the group on its cell, and its offset is zero when the host
\* preserves world transforms on reparenting; the call is not a no-op on the scene:
\* it creates one more anchor, links it to the collection and makes it the parent of
\* every fragment.
C6_SecondCallKeepsPositions ==
    AlreadyPlaced
        => /\ keep_world => call.offset = ZeroVector
           /\ keep_world => objects[Len(objects)].location = ZeroVector
           /\ SameWorldPositions
           /\ \A k \in DOMAIN ids : objects[ids[k]].location = call.before[ids[k]].location
           /\ CentredOn(objects, ids, call.cell_x, call.cell_y)
           /\ Len(objects) = Len(call.before) + 1
           /\ objects # call.before
           /\ objects[Len(objects)].type = "EMPTY"
           /\ objects[Len(objects)].users_collection = {TreeCollection}
           /\ \A k \in DOMAIN ids :
                 /\ objects[ids[k]].parent = Len(objects)
                 /\ call.before[ids[k]].parent # Len(objects)

C6_Witness ==
    /\ AlreadyPlaced /\ keep_world
    /\ call.n = 2
    /\ Len(ids) = 2
    /\ call.offset = ZeroVector
    /\ objects[call.before[ids[1]].parent].location # ZeroVector
    /\ objects[ids[1]].parent # call.before[ids[1]].parent

\* C7: align_group_with_empty changes only the anchor's position and each
\* fragment's parent link: it writes no fragment's location (its transform relative
\* to its parent) and no bounding box, and it leaves every other object as it was.
C7_FragmentsNotWritten ==
    call.op = "align"
        => /\ Len(objects) \in {Len(call.before), Len(call.before) + 1}
           /\ \A i \in DOMAIN call.before :
                 /\ objects[i].location = call.before[i].location
                 /\ objects[i].bound_box = call.before[i].bound_box
                 /\ objects[i].type = call.before[i].type
                 /\ objects[i].users_collection = call.before[i].users_collection
                 /\ (\A k \in DOMAIN ids : ids[k] # i) => objects[i] = call.before[i]

C7_Witness ==
    /\ AlignedSome
    /\ call.offset # NoneVec /\ call.offset # ZeroVector
    /\ \E k \in DOMAIN ids :
          /\ objects[ids[k]].location # ZeroVector
          /\ objects[ids[k]].location = call.before[ids[k]].location
          /\ objects[ids[k]].parent # call.before[ids[k]].parent
          /\ matrix_world(objects, ids[k]) # matrix_world(call.before, ids[k])

\* C9: when the group is non-empty but no fragment contributes a bounding-box
\* corner, the anchor is still created and linked and the fragments are parented to
\* it, and the anchor stays at the origin: no offset is applied; CE-trees-to-grid
\* returns the unmoved anchor.
C9_NoCornersLeavesAnchorAtOrigin ==
    (AlignedSome /\ WorldCoords(call.before, ids) = {})
        => /\ Len(objects) = Len(call.before) + 1
           /\ call.anchor = Len(objects)
           /\ objects[call.anchor].type = "EMPTY"
           /\ objects[call.anchor].users_collection = {TreeCollection}
           /\ objects[call.anchor].location = ZeroVector
           /\ \A k \in DOMAIN ids : objects[ids[k]].parent = call.anchor
           /\ call.offset = NoneVec
           /\ variant = CETreesToGrid => call.result = call.anchor

C9_Witness ==
    /\ AlignedSome
    /\ variant = CETreesToGrid
    /\ Len(ids) = 2
    /\ \A k \in DOMAIN ids : call.before[ids[k]].bound_box = NoCorners
    /\ objects[call.anchor].location = ZeroVector
    /\ call.result = call.anchor

\* C10: add_text_above_group places the label at
\* (center.x, center.y, max_corner.z + vertical_offset) of the union world bounding
\* box the fragments have when it is called, and at (0, 0, vertical_offset) when no
\* coordinate is collected.
C10_LabelAboveGroup ==
    call.op = "text"
        => /\ Len(objects) = Len(call.before) + 1
           /\ call.result = Len(objects)
           /\ \A i \in DOMAIN call.before : objects[i] = call.before[i]
           /\ LET label == objects[call.result]
              IN  /\ label.type = "FONT"
                  /\ IF WorldCoords(call.before, ids) = {}
                     THEN label.location = Vector(0, 0, call.text_offset)
                     ELSE /\ 2 * label.location[1] =
                                Lo(call.before, ids, 1) + Hi(call.before, ids, 1)
                          /\ 2 * label.location[2] =
                                Lo(call.before, ids, 2) + Hi(call.before, ids, 2)
                          /\ label.location[3] = Hi(call.before, ids, 3) + call.text_offset

C10_Witness ==
    /\ call.op = "text"
    /\ call.n = 2
    /\ Len(ids) = 2
    /\ WorldCoords(call.before, ids) # {}
    /\ CentredOn(call.before, ids, 0, 1)
    /\ objects[call.result].location[3] = Hi(objects, ids, 3) + call.text_offset
    /\ objects[call.result].location[1] = spacing \div 2

-----------------------------------------------------------------------------
(* Properties of the import operators *)

\* the imported groups of the run that have a fragment
Placed == {g \in DOMAIN groups : groups[g].ids # <<>>}

\* the anchor of a group, read off the scene: the parent of its first fragment
AnchorOf(g) == objects[groups[g].ids[1]].parent

Fragments(g) == {groups[g].ids[k] : k \in DOMAIN groups[g].ids}

\* C8: across a whole import run every imported group with a fragment has exactly
\* one anchor of its own, created for it: every fragment of the group has the
\* anchor as its parent, the anchor is an Empty linked to the group's collection,
\* no object is the parent of fragments of two groups, and the scene holds as many
\* Empties as there are such groups.
C8_OneAnchorPerGroup ==
    /\ \A g \in Placed :
          /\ AnchorOf(g) \in DOMAIN objects
          /\ objects[AnchorOf(g)].type = "EMPTY"
          /\ objects[AnchorOf(g)].parent = None
          /\ objects[AnchorOf(g)].users_collection = {groups[g].coll}
          /\ \A i \in Fragments(g) : objects[i].parent = AnchorOf(g)
          /\ \A i \in Fragments(g) : AnchorOf(g) > i
          /\ \A h \in Placed : \A i \in Fragments(h) : AnchorOf(g) # i
    /\ \A g, h \in Placed :
          g # h => \A i \in Fragments(g), j \in Fragments(h) :
                      objects[i].parent # objects[j].parent
    /\ Cardinality({i \in DOMAIN objects : objects[i].type = "EMPTY"}) = Cardinality(Placed)

C8_Witness ==
    /\ status = "FINISHED"
    /\ Cardinality(Placed) = 3
    /\ \E g, h \in Placed :
          /\ g # h
          /\ Len(groups[g].ids) = 2
          /\ AnchorOf(g) # AnchorOf(h)
          /\ objects[AnchorOf(g)].location # objects[AnchorOf(h)].location

\* the error reports made about a file, and the groups placed from it
ErrorsAbout(file) ==
    {k \in DOMAIN reports : reports[k].level = "ERROR" /\ reports[k].about = file}

GroupsOf(file) == {g \in DOMAIN groups : groups[g].file = file}

\* the objects of the scene with a given name
Named(name) == {i \in DOMAIN objects : objects[i].name = name}

RECURSIVE FragmentTotal(_)
\* the number of fragments of a sequence of groups
FragmentTotal(list) ==
    IF list = <<>> THEN 0 ELSE Len(Head(list).ids) + FragmentTotal(Tail(list))

\* the faulty file has been reached and its failure reported
Failed(stage) == fault # <<>> /\ fault[2] = stage /\ ErrorsAbout(fault[1]) # {}

\* what holds of a failure in every state of a run
C11_CaughtAndKept ==
    /\ \A file \in Assets :
          /\ Cardinality(GroupsOf(file)) + Cardinality(ErrorsAbout(file)) <= 1
          /\ ErrorsAbout(file) # {} => fault # <<>> /\ fault[1] = file
          /\ (fault # <<>> /\ fault[1] = file) => GroupsOf(file) = {}
    /\ Cardinality(Named("partial")) = IF Failed("import") THEN 1 ELSE 0
    /\ Cardinality(Named("mesh")) =
          FragmentTotal(groups) + IF Failed("place") THEN FragCount(fault[1]) ELSE 0
    /\ (pc = "done" /\ fault # <<>>) =>
          /\ status = "FINISHED"
          /\ Cardinality(ErrorsAbout(fault[1])) = 1
          /\ \A file \in Assets :
                (Present(file) /\ file # fault[1]) => Cardinality(GroupsOf(file)) = 1

\* what holds of every step of a run: no object, group or report is taken back, and
\* the step that reports a failure goes on to the next turn of the loop
C11_NothingRemoved ==
    /\ Len(objects') >= Len(objects)
    /\ \A i \in DOMAIN objects :
          /\ objects'[i].type = objects[i].type
          /\ objects'[i].name = objects[i].name
          /\ objects'[i].bound_box = objects[i].bound_box
          /\ objects[i].parent # None => objects'[i] = objects[i]
    /\ Len(groups') >= Len(groups)
    /\ \A g \in DOMAIN groups : groups'[g] = groups[g]
    /\ Len(reports') >= Len(reports)
    /\ \A k \in DOMAIN reports : reports'[k] = reports[k]
    /\ (\E file \in Assets : ErrorsAbout(file)' # ErrorsAbout(file)) =>
          /\ pc = "inner" /\ pc' = "inner"
          /\ inner' = inner + 1
          /\ outer' = outer
          /\ status' = status

\* C11: in every importer, when importing or placing one asset raises, the failure
\* is caught and reported as one error about that asset, the loop goes on to the
\* next asset (every other file present is imported and placed once), nothing
\* created before, or partly created for the failed asset, is removed, the failed
\* asset is not tried again, and execute ends with FINISHED.
C11_FailureCaught == [](C11_CaughtAndKept) /\ [][C11_NothingRemoved]_vars

C11_Witness ==
    /\ status = "FINISHED"
    /\ Failed("place")
    /\ FragCount(fault[1]) = 2
    /\ \E i, j \in Named("mesh") :
          /\ i # j
          /\ objects[i].parent = None /\ objects[j].parent = None
          /\ \E g \in Placed : \A k \in Fragments(g) : k > i /\ k > j
    /\ \E g \in Placed : \A k \in Fragments(g) : \A i \in Named("mesh") :
          objects[i].parent = None => k < i

\* the warnings execute has reported
Warnings == {k \in DOMAIN reports : reports[k].level = "WARNING"}

\* C12: whenever a style folder is missing, execute reports a warning and either
\* skips that style, going on with the other styles, or cancels the whole
\* operation, for every set of missing folders and in every importer.
C12_MissingFolderWarned ==
    pc # "idle"
        => \A style \in Styles :
              folders[style] = Missing
                 => /\ Warnings # {}
                    /\ \/ status = "CANCELLED"
                       \/ \A g \in DOMAIN groups : groups[g].file[1] # style

\* the row the CE Tree Grid importer gives a style: r with STYLE_ORDER[r] the style
\* (counting from 0) when reverse_rows is off, with STYLE_ORDER[3 - r] when it is on
StyleRow(style) ==
    CHOOSE r \in 0..3 :
        style = IF reverse_rows THEN STYLE_ORDER[(3 - r) + 1] ELSE STYLE_ORDER[r + 1]

\* C20: in the CE Tree Grid importers reverse_rows only reverses the order of the
\* style rows: the style at row r is STYLE_ORDER[r] with the flag off and
\* STYLE_ORDER[3 - r] with it on; the column of a tree is its file index, the
\* checkerboard is cols x 7, the label of a tree is on row 4 and the files imported
\* are the files present, whatever the flag; a style missing for a tree leaves its
\* row empty and shifts no other row.
C20_ReverseRowsOnlyReversesRows ==
    IsCE =>
        /\ \A g \in DOMAIN groups :
              /\ groups[g].cell_y = StyleRow(groups[g].file[1])
              /\ groups[g].cell_x = groups[g].file[2]
              /\ (groups[g].ids # <<>> /\ WorldCoords(objects, groups[g].ids) # {})
                    => CentredOn(objects, groups[g].ids, groups[g].file[2],
                                 StyleRow(groups[g].file[1]))
        /\ \A g, h \in DOMAIN groups :
              (g # h) => <<groups[g].cell_x, groups[g].cell_y>> #
                         <<groups[h].cell_x, groups[h].cell_y>>
        /\ pc # "idle" => checkerboard = <<TreeCount, 7>>
        /\ \A i \in Named("tree") :
              \E col \in 0..(TreeCount - 1) :
                  objects[i].location =
                      Vector(col * spacing + spacing \div 2,
                             -(4 * spacing) - spacing \div 2, U(1))
        /\ pc = "done" =>
              /\ Cardinality(Named("tree")) = TreeCount
              /\ {groups[g].file : g \in DOMAIN groups} =
                    {file \in Assets : Present(file) /\ (fault = <<>> \/ fault[1] # file)}

C20_Witness ==
    /\ IsCE
    /\ reverse_rows
    /\ status = "FINISHED"
    /\ folders["LowPoly"] = Missing
    /\ \E g, h \in Placed :
          /\ groups[g].file[1] = "Realistic" /\ groups[g].cell_y = 0
          /\ groups[h].file[1] = "Schematic" /\ groups[h].cell_y = 3
          /\ CentredOn(objects, groups[h].ids, 0, 3)
    /\ \A g \in DOMAIN groups : groups[g].cell_y # 2

-----------------------------------------------------------------------------
(* Properties of the LOD editing session *)

\* the last step was this operator and it returned FINISHED
Finished(op) == invoked.op = op /\ invoked.status = "FINISHED"

\* the session as it was immediately before the last successful Move
BeforeMove == since_move.before

\* C13: if Move Reference to Origin succeeds and Restore Original Position is then
\* run with no object moved, added or deleted by the user in between, every mesh
\* object of the scene, the reference included, has exactly the location it had
\* immediately before the Move.
C13_RoundTrip ==
    (Finished("Restore") /\ since_move.ops \cap {"moved", "added", "deleted"} = {})
        => /\ since_move # NotMoved
           /\ DOMAIN scene = DOMAIN BeforeMove.scene
           /\ \A n \in DOMAIN scene :
                 scene[n].type = "MESH" => scene[n].location = BeforeMove.scene[n].location

C13_Witness ==
    /\ Finished("Restore")
    /\ since_move.ops = {}
    /\ moves = 1
    /\ BeforeMove.reference = "Tile_A"
    /\ scene = BeforeMove.scene
    /\ scene["Tile_A"].location # ZeroVector
    /\ scene["Tile_B"].location = StartScene["Tile_B"].location
    /\ invoked.count = 2

\* the objects and the session data an operator can write
SessionData ==
    <<scene, original_positions_store, original_geometry_store, selected_reference_name,
      scene_offset_vector>>

\* Restore Original Position has already been run since the last successful Move
RestoredBefore == since_move.restores >= 1

\* C14 as stated: running Restore Original Position a second time without re-running
\* Move Reference to Origin is accepted with no detection: it is not rejected and no
\* warning distinguishes it from a valid restore.
C14_SecondRestoreAccepted ==
    (invoked.op = "Restore" /\ since_move.restores >= 2)
        => /\ invoked.status = "FINISHED"
           /\ invoked.level # "WARNING"

\* a Restore run when one has already been run since the last Move is cancelled with
\* the warning of the empty store and writes nothing
C14_RestoreAgain ==
    (RestoredBefore /\ invoked'.op = "Restore")
        => /\ invoked'.status = "CANCELLED"
           /\ invoked'.level = "WARNING"
           /\ invoked'.text = "No stored positions found. Move reference to origin first."
           /\ UNCHANGED SessionData

\* a Move run while the stores still hold an earlier Move's snapshot, its reference
\* being an object of the scene, is carried out as any other Move
C14_MoveAgain ==
    (/\ original_positions_store # <<>>
     /\ selected_reference_name \in DOMAIN scene
     /\ invoked'.op = "Move")
        => /\ invoked'.status = "FINISHED"
           /\ invoked'.level = "INFO"
           /\ invoked'.text = "Centered"

\* C14, amended: a second Restore Original Position without re-running Move Reference
\* to Origin is detected: it reports the warning "No stored positions found", returns
\* CANCELLED and changes no object and no session data. A repeated Move without a
\* Restore in between is not detected: it reports INFO and returns FINISHED.
C14_SecondRestoreRejected == [][C14_RestoreAgain /\ C14_MoveAgain]_vars

C14_Witness ==
    /\ invoked.op = "Restore"
    /\ invoked.status = "CANCELLED"
    /\ since_move.restores = 2
    /\ since_move.ops = {}
    /\ moves = 1
    /\ scene = BeforeMove.scene

\* the step about to be taken is an invalid transition of the session: Restore or
\* Register with an empty positions store, Move with no reference selected or with a
\* reference name that is no object of the scene
InvalidTransition ==
    \/ /\ invoked'.op \in {"Restore", "Register"}
       /\ original_positions_store = <<>>
    \/ /\ invoked'.op = "Move"
       /\ \/ selected_reference_name = NoName
          \/ selected_reference_name \notin DOMAIN scene

C15_WarnsAndKeeps ==
    InvalidTransition
        => /\ invoked'.level = "WARNING"
           /\ invoked'.status = "CANCELLED"
           /\ UNCHANGED SessionData

\* C15: Restore or Register New Meshes with an empty positions store, and Move with
\* no reference selected or with a reference name that no longer resolves to an
\* object, each report a warning, return CANCELLED and leave every object, the
\* positions store, the geometry store, the offset vector and the selected reference
\* unchanged.
C15_InvalidTransitionsOnlyWarn == [][C15_WarnsAndKeeps]_vars

C15_Witness ==
    /\ invoked.op = "Move"
    /\ invoked.status = "CANCELLED"
    /\ invoked.text = "Reference object not found."
    /\ selected_reference_name = Deleted
    /\ Deleted \notin DOMAIN scene
    /\ Len(original_positions_store) = 2
    /\ scene_offset_vector # ZeroVector
    /\ scene["Tile_B"].location = VecAdd(StartScene["Tile_B"].location, scene_offset_vector)

\* the world position of the centre of an object's geometry
CentreWorld(obj) == VecAdd(World(obj), GeometryCenter(obj.verts))

\* the entries of the positions store that are about a name
EntriesOf(name) ==
    {k \in DOMAIN original_positions_store : original_positions_store[k][1] = name}

\* C16: after a successful Move Reference to Origin the reference's location is
\* (0,0,0) and the world position of its geometry centre is the origin, the offset
\* vector is minus the pre-Move world position of that centre, every other mesh is at
\* its pre-Move location plus the offset, and the positions store holds exactly one
\* entry per mesh of the scene, with its pre-Move location.
C16_AfterMove ==
    Finished("Move")
        => LET ref == selected_reference_name
               pre == BeforeMove.scene
           IN  /\ scene[ref].location = ZeroVector
               /\ CentreWorld(scene[ref]) = ZeroVector
               /\ scene_offset_vector = VecNeg(CentreWorld(pre[ref]))
               /\ \A n \in DOMAIN scene \ {ref} :
                     scene[n].type = "MESH"
                         => scene[n].location = VecAdd(pre[n].location, scene_offset_vector)
               /\ \A n \in DOMAIN scene :
                     IF scene[n].type = "MESH"
                     THEN /\ Cardinality(EntriesOf(n)) = 1
                          /\ \A k \in EntriesOf(n) :
                                original_positions_store[k][2] = pre[n].location
                     ELSE EntriesOf(n) = {}
               /\ StoredNames(original_positions_store) \subseteq DOMAIN scene

\* C17: after Move Reference to Origin followed by any edits to the reference's mesh
\* and any number of Select Random Model calls, Restore Original Position makes the
\* object that was the reference at the time of the Move carry the vertex coordinates
\* it had immediately before the Move.
C17_GeometryRestored ==
    (Finished("Restore") /\ since_move.ops \subseteq {"edited"})
        => /\ since_move # NotMoved
           /\ BeforeMove.reference \in DOMAIN scene
           /\ scene[BeforeMove.reference].verts
                  = BeforeMove.scene[BeforeMove.reference].verts

C17_Witness ==
    /\ Finished("Restore")
    /\ since_move.ops = {"edited"}
    /\ BeforeMove.reference = Remeshed
    /\ selected_reference_name # Remeshed
    /\ scene[Remeshed].verts = TileVerts
    /\ TileVerts # Recentred(TileVerts)
    /\ TileVerts # EditedVerts

\* the scene as the last successful Move left it
AfterMove == MoveReferenceToOrigin(BeforeMove).state.scene

\* Register New Meshes appends, for each new mesh, its name with its location less the
\* offset of the scene
C18_RegisterStores ==
    (invoked'.op = "Register" /\ invoked'.status = "FINISHED" /\ invoked'.count > 0)
        => LET new_meshes == NewMeshes(SessionState)
           IN  original_positions_store' =
                   original_positions_store
                       \o [k \in DOMAIN new_meshes |->
                              <<new_meshes[k],
                                VecSub(scene[new_meshes[k]].location, scene_offset_vector)>>]

\* after Restore, a mesh added and registered during the session is displaced from
\* every mesh snapshotted at Move as it was during the session
C18_SameDisplacement ==
    (Finished("Restore") /\ since_move.ops = {"added"})
        => \A e \in since_move.added :
              \A n \in StoredNames(MoveReferenceToOrigin(BeforeMove).state.positions) :
                 LET new == scene[e[1]]
                     positioned == [new EXCEPT !.location = e[2]]
                 IN  VecSub(CentreWorld(new), CentreWorld(scene[n]))
                        = VecSub(CentreWorld(positioned), CentreWorld(AfterMove[n]))

\* C18: for a mesh added after Move and registered while at location L, Register New
\* Meshes stores (name, L - scene_offset_vector), so that after Restore its
\* displacement relative to every mesh that was snapshotted at Move is the same as
\* it was during the session.
C18_RegisterThenRestore == [](C18_SameDisplacement) /\ [][C18_RegisterStores]_vars

C19_ClearsOnlyTheSession ==
    invoked'.op = "Clear"
        => /\ original_positions_store' = <<>>
           /\ original_geometry_store' = <<>>
           /\ scene_offset_vector' = ZeroVector
           /\ invoked'.status = "FINISHED"
           /\ UNCHANGED <<scene, selected_reference_name>>

\* C19: from any state Clear Session Data empties the positions store and the
\* geometry store and resets the offset vector to zero, returns FINISHED, and changes
\* no object's location or geometry and not the selected reference name.
C19_ClearSessionIsSafe == [][C19_ClearsOnlyTheSession]_vars

C19_Witness ==
    /\ invoked.op = "Clear"
    /\ invoked.status = "FINISHED"
    /\ script = LODImproved
    /\ since_move # NotMoved
    /\ since_move.restores = 0
    /\ since_move.ops = {}
    /\ selected_reference_name = BeforeMove.reference
    /\ scene = AfterMove
    /\ scene # BeforeMove.scene
    /\ original_positions_store = <<>>
    /\ scene_offset_vector = ZeroVector

\* the last successful Move was run while the stores still held an earlier snapshot
MovedAgain == since_move # NotMoved /\ BeforeMove.positions # <<>>

\* the stores and the offset hold what the last Move read, and nothing older
C21_SnapshotOfLastMove ==
    (Finished("Move") /\ MovedAgain)
        => LET pre == BeforeMove.scene
               ref == BeforeMove.reference
               meshes == MeshObjects(pre)
           IN  /\ original_positions_store =
                      [k \in DOMAIN meshes |-> <<meshes[k], pre[meshes[k]].location>>]
               /\ original_geometry_store = [n \in {ref} |-> pre[ref].verts]
               /\ scene_offset_vector = VecNeg(CentreWorld(pre[ref]))

\* a Restore after the second Move puts every mesh where it was before that Move
C21_RestoresToSecondMove ==
    (Finished("Restore") /\ MovedAgain /\ since_move.ops = {})
        => \A n \in DOMAIN scene :
              scene[n].type = "MESH"
                  => scene[n].location = BeforeMove.scene[n].location

\* C21: each successful Move Reference to Origin discards the previous snapshot and
\* stores the locations and the reference geometry as they are at that Move; after
\* Move, Move, Restore with nothing else changed every mesh is at the location it had
\* immediately before the second Move.
C21_LastWriteWins == C21_SnapshotOfLastMove /\ C21_RestoresToSecondMove

C21_Witness ==
    /\ Finished("Restore")
    /\ MovedAgain
    /\ moves = 2
    /\ edits = 0
    /\ BeforeMove.reference = "Tile_B"
    /\ BeforeMove.positions[1] = <<"Tile_A", StartScene["Tile_A"].location>>
    /\ scene["Tile_A"].location = ZeroVector
    /\ scene["Tile_B"].location # StartScene["Tile_B"].location
    /\ original_positions_store = <<>>

\* the two stores are empty together, and the offset is zero when they are
C22_StoresAgree ==
    /\ (original_positions_store = <<>>) <=> (DOMAIN original_geometry_store = {})
    /\ original_positions_store = <<>> => scene_offset_vector = ZeroVector
    /\ Finished("Restore") => selected_reference_name \in Names

\* Restore and Clear do not write the selected reference
C22_ReferenceKept ==
    invoked'.op \in {"Restore", "Clear"} => UNCHANGED selected_reference_name

\* C22: in every state reachable by Select, Move, Register, Restore and
\* Clear/Uninstall the positions store is empty if and only if the geometry store is
\* empty, an empty positions store implies that scene_offset_vector is zero, and
\* Restore and Clear leave selected_reference_name set, so that Move can be run again
\* without a new Select.
C22_SessionStateConsistent == [](C22_StoresAgree) /\ [][C22_ReferenceKept]_vars

C22_Witness ==
    /\ Finished("Restore")
    /\ since_move.restores = 1
    /\ since_move.ops = {"edited"}
    /\ selected_reference_name = BeforeMove.reference
    /\ original_positions_store = <<>>
    /\ DOMAIN original_geometry_store = {}
    /\ scene_offset_vector = ZeroVector
    /\ MoveReferenceToOrigin(SessionState).status = "FINISHED"

\* no name is stored twice
C23_NamesStoredOnce ==
    \A j, k \in DOMAIN original_positions_store :
        j # k => original_positions_store[j][1] # original_positions_store[k][1]

\* a Register run straight after a Register that finished adds nothing and says so
C23_RegisterAgain ==
    (Finished("Register") /\ invoked'.op = "Register")
        => /\ original_positions_store' = original_positions_store
           /\ invoked'.status = "FINISHED"
           /\ invoked'.text = "No new mesh objects found."
           /\ invoked'.count = 0

\* C23: no object name appears more than once in the positions store in any
\* reachable state, and Register New Meshes is idempotent: run twice in a row with no
\* change to the scene, it adds nothing the second time and reports that no new mesh
\* objects were found.
C23_RegisterIdempotent == [](C23_NamesStoredOnce) /\ [][C23_RegisterAgain]_vars

C23_Witness ==
    /\ invoked.op = "Register"
    /\ invoked.text = "No new mesh objects found."
    /\ since_move.ops = {"added"}
    /\ since_move.added = {<<"Tile_New", NewTileAt>>}
    /\ Len(original_positions_store) = 3
    /\ original_positions_store[3][1] = "Tile_New"

C24_WritesStoredNames ==
    (invoked'.op = "Restore" /\ invoked'.status = "FINISHED")
        => LET stored == StoredNames(original_positions_store)
           IN  /\ DOMAIN scene' = DOMAIN scene
               /\ \A n \in DOMAIN scene \ stored :
                     scene'[n].location = scene[n].location
               /\ \A k \in DOMAIN original_positions_store :
                     original_positions_store[k][1] \in DOMAIN scene
                         => scene'[original_positions_store[k][1]].location
                                = original_positions_store[k][2]
               /\ invoked'.count = Cardinality(stored \cap DOMAIN scene)
               /\ invoked'.level = "INFO"
               /\ original_positions_store' = <<>>
               /\ DOMAIN original_geometry_store' = {}
               /\ scene_offset_vector' = ZeroVector

\* C24: Restore Original Position writes the location of exactly those objects whose
\* names are in the positions store and that still exist: a mesh added during the
\* session and never registered keeps its location, a stored name whose object was
\* deleted is skipped without error, the count reported is the number of stored names
\* that still exist, and the session state is cleared in every such case.
C24_RestoreWritesExactlyStored == [][C24_WritesStoredNames]_vars

C24_Witness ==
    /\ Finished("Restore")
    /\ since_move.ops = {"deleted"}
    /\ Deleted \in DOMAIN BeforeMove.scene
    /\ Deleted \notin DOMAIN scene
    /\ invoked.count = 1
    /\ scene["Tile_B"].location = BeforeMove.scene["Tile_B"].location
    /\ scene["Lamp"] = StartScene["Lamp"]
    /\ original_positions_store = <<>>

====
